---- MODULE Spec2Model ----
(***************************************************************************)
(* A model of three parts of ixdat:                                        *)
(*   - CyclicVoltammagram.redefine_cycle (techniques/cv.py), the scan that *)
(*     builds the cycle counter from a potential signal;                   *)
(*   - ZilienTSVReader (readers/zilien.py), the reader of Zilien tsv       *)
(*     files, with its column and row splitting helpers;                   *)
(*   - Spectrum (spectra.py), the wrapper of a lazily loaded Field.        *)
(* Every part has its own specification (SpecCV, SpecSplits, SpecReader,   *)
(* SpecSpectrum); the variables of the other parts stay at their initial   *)
(* value.  Python indices are kept 0-based; TLA+ sequences are 1-based, so *)
(* element i of a Python list is element i + 1 of the sequence.            *)
(***************************************************************************)
EXTENDS Integers, Sequences, FiniteSets, TLC

(***************************************************************************)
(* Bounds of the model.                                                    *)
(***************************************************************************)
\* longest potential signal given to redefine_cycle
MaxN == 8
\* largest N_points given to redefine_cycle
MaxNPoints == 2
\* longest composite-key vector given to _get_biologic_splits
MaxKeys == 6
\* longest series-header row given to _get_series_splits
MaxL == 5
\* longest x and y data of a Spectrum
MaxX == 2
\* most property accesses made on one Spectrum
MaxAccesses == 3
\* most rows of the data matrix of a file
MaxRows == 3
\* most read calls made on one reader
MaxReads == 3
\* longest potential signal of the scans that are followed to their end
MaxNTerm == 5
\* largest total of header lines that a preamble declares
MaxDeclared == 7
\* most metadata lines of a preamble after the four fixed ones
MaxExtraLines == 3

VARIABLES
    \* ---- redefine_cycle (techniques/cv.py) ----
    cv_args,      \* the call: [v, start_potential, redox, N_points]
    cv_pc,        \* "call" | "loop" | "done"
    v,            \* local v (negated when not redox)
    start_potential, \* local start_potential (negated when not redox)
    n,            \* scan index
    c,            \* cycle counter
    cycle_vec,    \* the cycle vector under construction
    cv_iters,     \* loop iterations run so far
    \* ---- the helpers of readers/zilien.py called on their own ----
    sp_call,      \* the helper called: "biologic" | "series" |
                  \* "parse_metadata_line" | "read_metadata" | "form_names_and_unit"
    sp_in,        \* its input
    sp_out,       \* its return value
    sp_pc,        \* "call" | "done"
    \* ---- Spectrum (spectra.py) ----
    sx_args,      \* the constructor call: [field, field_id] and how it was
                  \* made: [via, x, y, tstamp]
    backend,      \* the Field that the backend holds under the field id
    self_field,   \* self._field: a PlaceHolderObject or a Field
    get_object_calls, \* calls of PlaceHolderObject.get_object so far
    sx_ret,       \* the last property access and what it returned
    sx_accesses,  \* property accesses made so far
    \* ---- ZilienTSVReader (readers/zilien.py) ----
    disk,         \* the file that the existing paths lead to
    self,         \* the attributes of the reader object
    rd_ret,       \* the outcome of the last read call
    rd_reads      \* read calls made so far

cv_vars == <<cv_args, cv_pc, v, start_potential, n, c, cycle_vec, cv_iters>>
sp_vars == <<sp_call, sp_in, sp_out, sp_pc>>
sx_vars == <<sx_args, backend, self_field, get_object_calls, sx_ret, sx_accesses>>
rd_vars == <<disk, self, rd_ret, rd_reads>>

vars == <<cv_vars, sp_vars, sx_vars, rd_vars>>

(***************************************************************************)
(* Generic helpers                                                         *)
(***************************************************************************)
Min(a, b) == IF a <= b THEN a ELSE b
Max(a, b) == IF a >= b THEN a ELSE b

\* all sequences over S with length in lo..hi
SeqsOf(S, lo, hi) == UNION {[1..k -> S] : k \in lo..hi}

\* Python's None where an integer may stand instead (the end of a split pair)
None == -1

\* numpy's nan, the filling of np.genfromtxt for a missing cell; the numbers
\* of a file are >= 0
NaN == -1

\* seq[begin:end] for 0 <= begin, and end either None or >= 0
Slice(seq, begin, end) ==
    LET stop == IF end = None THEN Len(seq) ELSE Min(end, Len(seq))
    IN  SubSeq(seq, begin + 1, stop)


(***************************************************************************)
(* Python strings, as TLA+ strings read with Len, \o and SubSeq            *)
(***************************************************************************)
\* s[i - 1], the i-th character of s
Char(s, i) == SubSeq(s, i, i)

\* s.endswith(suffix)
EndsWith(s, suffix) ==
    /\ Len(s) >= Len(suffix)
    /\ SubSeq(s, Len(s) - Len(suffix) + 1, Len(s)) = suffix

\* the positions of s at which sub begins
Occurrences(s, sub) ==
    {i \in 1..(Len(s) - Len(sub) + 1) : SubSeq(s, i, i + Len(sub) - 1) = sub}

SetMin(S) == CHOOSE x \in S : \A y \in S : x <= y
SetMax(S) == CHOOSE x \in S : \A y \in S : x >= y

\* s.split(sep), for a separator of one character
RECURSIVE Split(_, _)
Split(s, sep) ==
    LET at == Occurrences(s, sep)
    IN  IF at = {} THEN <<s>>
        ELSE <<SubSeq(s, 1, SetMin(at) - 1)>> \o
             Split(SubSeq(s, SetMin(at) + 1, Len(s)), sep)

\* sep.join(parts)
RECURSIVE Join(_, _)
Join(parts, sep) ==
    IF parts = <<>> THEN ""
    ELSE IF Len(parts) = 1 THEN parts[1]
    ELSE parts[1] \o sep \o Join(Tail(parts), sep)

\* s.strip("\n")
RECURSIVE StripNewlines(_)
StripNewlines(s) ==
    IF Len(s) > 0 /\ Char(s, 1) = "\n" THEN StripNewlines(SubSeq(s, 2, Len(s)))
    ELSE IF Len(s) > 0 /\ Char(s, Len(s)) = "\n"
    THEN StripNewlines(SubSeq(s, 1, Len(s) - 1))
    ELSE s

UpperCase == "ABCDEFGHIJKLMNOPQRSTUVWXYZ"
LowerCase == "abcdefghijklmnopqrstuvwxyz"
DigitChars == "0123456789"

IsDigit(ch) == Occurrences(DigitChars, ch) # {}

\* the value of a digit character
DigitValue(ch) == SetMin(Occurrences(DigitChars, ch)) - 1

\* s is one or more digits
AllDigits(s) == Len(s) > 0 /\ \A i \in 1..Len(s) : IsDigit(Char(s, i))

\* ch.lower()
LowerChar(ch) ==
    IF Occurrences(UpperCase, ch) # {}
    THEN Char(LowerCase, SetMin(Occurrences(UpperCase, ch)))
    ELSE ch

\* s.lower()
RECURSIVE Lower(_)
Lower(s) ==
    IF Len(s) = 0 THEN ""
    ELSE LowerChar(Char(s, 1)) \o Lower(SubSeq(s, 2, Len(s)))

\* the number that a string of digits writes
RECURSIVE DigitsToInt(_)
DigitsToInt(s) ==
    IF Len(s) = 0 THEN 0
    ELSE DigitsToInt(SubSeq(s, 1, Len(s) - 1)) * 10 + DigitValue(Char(s, Len(s)))

\* str(i) for 0 <= i
RECURSIVE IntToStr(_)
IntToStr(i) ==
    IF i < 10 THEN Char(DigitChars, i + 1)
    ELSE IntToStr(i \div 10) \o Char(DigitChars, (i % 10) + 1)

\* a dict with the entry key: value set
Put(dict, key, value) ==
    [k \in DOMAIN dict \cup {key} |-> IF k = key THEN value ELSE dict[k]]

EmptyDict == [k \in {} |-> 0]

(***************************************************************************)
(* redefine_cycle                                                          *)
(***************************************************************************)
\* the potential values of the model (in V) and the thresholds
Potentials == {0, 1, 2}
StartPotentials == {0, 1, 2}

\* numpy: -v
Negate(vec) == [i \in DOMAIN vec |-> 0 - vec[i]]

\* np.zeros(self.t.shape)
Zeros(N) == [i \in 1..N |-> 0]

\* v[n:] < start_potential, as a sequence of booleans (empty when n >= N)
MaskBehind(vec, sp, from) ==
    [i \in 1..(Len(vec) - from) |-> vec[from + i] < sp]

\* v[n:] > start_potential
MaskInFront(vec, sp, from) ==
    [i \in 1..(Len(vec) - from) |-> vec[from + i] > sp]

\* `True in mask`
TrueIn(mask) == \E i \in DOMAIN mask : mask[i]

\* np.argmax(mask): the 0-based index of the first True, 0 when there is none
ArgMax(mask) ==
    IF TrueIn(mask)
    THEN (CHOOSE i \in DOMAIN mask :
              mask[i] /\ \A j \in 1..(i - 1) : ~mask[j]) - 1
    ELSE 0

\* the arguments as the scan uses them: negated when `not redox`
LocalV(args) == IF ~args.redox THEN Negate(args.v) ELSE args.v

LocalStart_noflip(args) == args.start_potential
LocalStart(args) ==
    IF ~args.redox THEN 0 - args.start_potential ELSE args.start_potential

\* n += np.argmax(mask_behind) + N_points
AfterBehind(from, mask, N_points) == from + ArgMax(mask) + N_points

\* n += np.argmax(mask_in_front)
AfterInFront_stay(from, mask) == from
AfterInFront(from, mask) == from + ArgMax(mask)

\* cycle_vec[n:] = c
Stamp_single(vec, from, val) ==
    [i \in DOMAIN vec |-> IF i = from + 1 THEN val ELSE vec[i]]
Stamp(vec, from, val) ==
    [i \in DOMAIN vec |-> IF i > from THEN val ELSE vec[i]]

CVArgs ==
    [v : SeqsOf(Potentials, 1, MaxN),
     start_potential : StartPotentials,
     redox : BOOLEAN,
     N_points : 0..MaxNPoints]

CVInit ==
    /\ cv_args \in CVArgs
    /\ cv_pc = "call"
    /\ v = <<>>
    /\ start_potential = 0
    /\ n = 0
    /\ c = 0
    /\ cycle_vec = <<>>
    /\ cv_iters = 0

\* the calls whose scan is followed to its end under fairness
CVTermInit ==
    /\ cv_args \in [v : SeqsOf(Potentials, 1, MaxNTerm),
                     start_potential : StartPotentials,
                     redox : BOOLEAN,
                     N_points : 0..MaxNPoints]
    /\ cv_pc = "call"
    /\ v = <<>>
    /\ start_potential = 0
    /\ n = 0
    /\ c = 0
    /\ cycle_vec = <<>>
    /\ cv_iters = 0

\* cv.py 68-77: the set-up of the scan
RedefineCycle ==
    /\ cv_pc = "call"
    /\ cycle_vec' = Zeros(Len(cv_args.v))
    /\ c' = 0
    /\ n' = 0
    /\ v' = LocalV(cv_args)
    /\ start_potential' = LocalStart(cv_args)
    /\ cv_pc' = "loop"
    /\ UNCHANGED <<cv_args, cv_iters>>

\* cv.py 78-101: one pass of `while n < N`, up to a break or the end of the body
ScanIteration ==
    /\ cv_pc = "loop"
    /\ n < Len(v)
    /\ LET mask_behind == MaskBehind(v, start_potential, n)
           n1 == AfterBehind(n, mask_behind, cv_args.N_points)
           mask_in_front == MaskInFront(v, start_potential, n1)
           n2 == AfterInFront(n1, mask_in_front)
       IN  IF ~TrueIn(mask_behind)
           THEN \* break: no sample behind the start potential remains
                /\ cv_pc' = "done"
                /\ UNCHANGED <<n, c, cycle_vec>>
           ELSE IF ~TrueIn(mask_in_front)
           THEN \* break: no sample ahead of the start potential remains
                /\ n' = n1
                /\ cv_pc' = "done"
                /\ UNCHANGED <<c, cycle_vec>>
           ELSE /\ c' = c + 1
                /\ cycle_vec' = Stamp(cycle_vec, n2, c + 1)
                /\ n' = n2 + cv_args.N_points
                /\ cv_pc' = "loop"
    /\ cv_iters' = cv_iters + 1
    /\ UNCHANGED <<cv_args, v, start_potential>>

\* cv.py 78: the loop condition fails, cycle_vec becomes the data of "cycle"
ScanEnd ==
    /\ cv_pc = "loop"
    /\ n >= Len(v)
    /\ cv_pc' = "done"
    /\ UNCHANGED <<cv_args, v, start_potential, n, c, cycle_vec, cv_iters>>



(***************************************************************************)
(* readers/zilien.py: metadata lines and header names                      *)
(***************************************************************************)
\* Python values of a metadata dict: a str, an int, a float or a bool.  A
\* float is the decimal number i / 10^d.
PyStr(text) == [t |-> "str", s |-> text, i |-> 0, d |-> 0, b |-> FALSE]
PyInt(number) == [t |-> "int", s |-> "", i |-> number, d |-> 0, b |-> FALSE]
PyBool(bool) == [t |-> "bool", s |-> "", i |-> 0, d |-> 0, b |-> bool]

RECURSIVE PyFloat(_, _)
PyFloat(mantissa, decimals) ==
    IF decimals > 0 /\ mantissa % 10 = 0
    THEN PyFloat(mantissa \div 10, decimals - 1)
    ELSE [t |-> "float", s |-> "", i |-> mantissa, d |-> decimals, b |-> FALSE]

PyNone == [t |-> "None", s |-> "", i |-> 0, d |-> 0, b |-> FALSE]

\* the outcome of a call: a value, or the exception that it raised
Returns(value) == [ok |-> TRUE, exc |-> "", value |-> value]
Raises(exception) == [ok |-> FALSE, exc |-> exception, value |-> PyNone]

\* int(value) for a text of digits; any other text of the model is not a number
ParseInt(text) ==
    IF AllDigits(text) THEN Returns(PyInt(DigitsToInt(text)))
    ELSE Raises("ValueError")

\* float(value) for a text of digits with at most one decimal point
ParseFloat(text) ==
    LET parts == Split(text, ".")
    IN  IF Len(parts) = 1 /\ AllDigits(parts[1])
        THEN Returns(PyFloat(DigitsToInt(parts[1]), 0))
        ELSE IF Len(parts) = 2 /\ AllDigits(parts[1]) /\ AllDigits(parts[2])
        THEN Returns(PyFloat(DigitsToInt(parts[1] \o parts[2]), Len(parts[2])))
        ELSE Raises("ValueError")

\* zilien.py 54-78: the (full_name, value) of a metadata line
ParseMetadataLine_noprefix(line) ==
    LET fields == Split(StripNewlines(line), "\t")
    IN  IF Len(fields) # 5 THEN Raises("ValueError")
        ELSE LET converted ==
                     CASE fields[4] = "string" -> Returns(PyStr(fields[5]))
                       [] fields[4] = "int" -> ParseInt(fields[5])
                       [] fields[4] = "double" -> ParseFloat(fields[5])
                       [] fields[4] = "bool" -> Returns(PyBool(fields[5] = "true"))
                       [] OTHER -> Raises("TypeError")
             IN  IF converted.ok
                 THEN Returns([key |-> fields[1], value |-> converted.value])
                 ELSE converted
ParseMetadataLine(line) ==
    LET fields == Split(StripNewlines(line), "\t")
    IN  IF Len(fields) # 5 THEN Raises("ValueError")
        ELSE LET name == fields[1]
                 attach_to_series == fields[3]
                 type_as_str == fields[4]
                 value == fields[5]
                 full_name == IF attach_to_series # ""
                              THEN attach_to_series \o "_" \o name
                              ELSE name
                 converted ==
                     CASE type_as_str = "string" -> Returns(PyStr(value))
                       [] type_as_str = "int" -> ParseInt(value)
                       [] type_as_str = "double" -> ParseFloat(value)
                       [] type_as_str = "bool" -> Returns(PyBool(value = "true"))
                       [] OTHER -> Raises("TypeError")
             IN  IF converted.ok
                 THEN Returns([key |-> full_name, value |-> converted.value])
                 ELSE converted

\* zilien.py 47
BIOLOGIC_SERIES_NAME == "EC-lab"

\* zilien.py 87: ^(.+?) \[(.+?)\]$ ; the unit group of the match, "" without
\* a match.  The first group is the shortest, so the unit begins after the
\* first " [" that leaves a unit of one character or more before the last "]".
ZilienUnit(column_header) ==
    LET L == Len(column_header)
        opens == {i \in Occurrences(column_header, " [") : i >= 2 /\ i + 2 <= L - 1}
    IN  IF L >= 1 /\ Char(column_header, L) = "]" /\ opens # {}
        THEN [matched |-> TRUE,
              unit |-> SubSeq(column_header, SetMin(opens) + 2, L - 1)]
        ELSE [matched |-> FALSE, unit |-> ""]

\* zilien.py 89: ^(.+)/(.+)$ ; the first group is the longest, so the unit
\* begins after the last "/" that leaves a unit of one character or more
BiologicUnit(column_header) ==
    LET L == Len(column_header)
        slashes == {i \in Occurrences(column_header, "/") : i >= 2 /\ i <= L - 1}
    IN  IF slashes # {}
        THEN [matched |-> TRUE,
              unit |-> SubSeq(column_header, SetMax(slashes) + 1, L)]
        ELSE [matched |-> FALSE, unit |-> ""]

\* zilien.py 91-99: the mass of a header of the form C<digits>M<digits>, ""
\* (for None) when the header has another form
ToMass(string) ==
    LET L == Len(string)
        ms == {i \in Occurrences(string, "M") :
                  /\ AllDigits(SubSeq(string, 2, i - 1))
                  /\ AllDigits(SubSeq(string, i + 1, L))}
    IN  IF L >= 4 /\ Char(string, 1) = "C" /\ ms # {}
        THEN SubSeq(string, SetMin(ms) + 1, L)
        ELSE ""

\* the column headers of an elapsed-time column
TimeColumnHeaders == {"Time [s]", "time/s"}

\* zilien.py 467-520: (name, unit, standard_name), standard_name "" for None
FormNamesAndUnit_massfirst(series_header, column_header) ==
    LET zilien == ZilienUnit(column_header)
        biologic == BiologicUnit(column_header)
        unit == IF zilien.matched THEN zilien.unit
                ELSE IF biologic.matched THEN biologic.unit
                ELSE ""
    IN  IF ToMass(series_header) # ""
        THEN [name |-> "M" \o ToMass(series_header) \o " [" \o unit \o "]",
              unit |-> unit, standard_name |-> "M" \o ToMass(series_header)]
        ELSE IF column_header \in TimeColumnHeaders
        THEN [name |-> (IF series_header = "pot" THEN "Potential"
                        ELSE IF series_header = BIOLOGIC_SERIES_NAME THEN "Biologic"
                        ELSE series_header) \o " " \o Lower(column_header),
              unit |-> "s", standard_name |-> ""]
        ELSE IF EndsWith(series_header, "setpoint") \/ EndsWith(series_header, "value")
        THEN [name |-> series_header \o " [" \o unit \o "]",
              unit |-> unit, standard_name |-> ""]
        ELSE [name |-> column_header, unit |-> unit, standard_name |-> ""]
FormNamesAndUnit(series_header, column_header) ==
    IF column_header \in TimeColumnHeaders
    THEN [name |-> (IF series_header = "pot" THEN "Potential"
                    ELSE IF series_header = BIOLOGIC_SERIES_NAME THEN "Biologic"
                    ELSE series_header) \o " " \o Lower(column_header),
          unit |-> "s",
          standard_name |-> ""]
    ELSE LET zilien == ZilienUnit(column_header)
             biologic == BiologicUnit(column_header)
             unit == IF zilien.matched THEN zilien.unit
                     ELSE IF biologic.matched THEN biologic.unit
                     ELSE ""
             setpoint_or_value ==
                 EndsWith(series_header, "setpoint") \/ EndsWith(series_header, "value")
             mass == ToMass(series_header)
         IN  IF setpoint_or_value
             THEN [name |-> series_header \o " [" \o unit \o "]",
                   unit |-> unit, standard_name |-> ""]
             ELSE IF mass # ""
             THEN [name |-> "M" \o mass \o " [" \o unit \o "]",
                   unit |-> unit, standard_name |-> "M" \o mass]
             ELSE [name |-> column_header, unit |-> unit, standard_name |-> ""]

(***************************************************************************)
(* ZilienTSVReader._get_series_splits and _get_biologic_splits             *)
(***************************************************************************)
\* list(zip_longest(l, l[1:])): every element with its successor, the last
\* one with None
ZipLongestTail_zip(l) == [i \in 1..(Len(l) - 1) |-> <<l[i], l[i + 1]>>]
ZipLongestTail(l) ==
    [i \in 1..Len(l) |-> <<l[i], IF i < Len(l) THEN l[i + 1] ELSE None>>]

\* zilien.py 417-444
GetSeriesSplits_allheaders(series_headers) ==
    LET indices == [i \in 1..Len(series_headers) |-> i - 1]
        series_split_indices ==
            SelectSeq(indices, LAMBDA index : series_headers[index + 1] # "")
    IN  [series_split_indices |-> ZipLongestTail(series_split_indices),
         nonempty_headers |-> series_headers]
GetSeriesSplits(series_headers) ==
    LET indices == [i \in 1..Len(series_headers) |-> i - 1]
        series_split_indices ==
            SelectSeq(indices, LAMBDA index : series_headers[index + 1] # "")
        nonempty_headers ==
            SelectSeq(series_headers, LAMBDA series_header : series_header # "")
    IN  [series_split_indices |-> ZipLongestTail(series_split_indices),
         nonempty_headers |-> nonempty_headers]

\* == on two numpy floats: nan equals nothing, itself included
KeyEq(a, b) == a # NaN /\ b # NaN /\ a = b

\* the length of the first group that itertools.groupby yields on keys: the
\* elements that equal the first one, up to the first one that does not
FirstGroupLength_byvalue(keys) ==
    Cardinality({i \in DOMAIN keys : i = 1 \/ KeyEq(keys[1], keys[i])})
FirstGroupLength(keys) ==
    LET differs == {i \in 2..Len(keys) : ~KeyEq(keys[1], keys[i])}
    IN  IF differs = {} THEN Len(keys)
        ELSE (CHOOSE i \in differs : \A j \in differs : i <= j) - 1

\* zilien.py 457-465: the loop over groupby(technique_numbers), from `index`
RECURSIVE BiologicSplitsFrom(_, _)
BiologicSplitsFrom(keys, index) ==
    IF keys = <<>> THEN <<>>
    ELSE LET group_length == FirstGroupLength(keys)
         IN  <<<<index, index + group_length>>>> \o
             BiologicSplitsFrom(SubSeq(keys, group_length + 1, Len(keys)),
                                index + group_length)

\* zilien.py 446-465
GetBiologicSplits(technique_numbers) == BiologicSplitsFrom(technique_numbers, 0)

\* zilien.py 347: exp_nums * 1000 + tech_nums on numpy vectors (nan stays nan)
SplitVector(exp_nums, tech_nums) ==
    [i \in DOMAIN exp_nums |->
        IF exp_nums[i] = NaN \/ tech_nums[i] = NaN THEN NaN
        ELSE exp_nums[i] * 1000 + tech_nums[i]]


(***************************************************************************)
(* readers/zilien.py: ZilienTSVReader                                      *)
(***************************************************************************)
\* A file of the model: the lines of its preamble and of its two header
\* rows, each with its line end, and the matrix that np.genfromtxt reads from
\* the rest: rows of equal length, a number >= 0 or NaN in every cell.
\* file_handle.readline(): the line at `position` (1-based), "" at the end
ReadLine(file, position) ==
    IF position <= Len(file.lines) THEN file.lines[position] ELSE ""

\* zilien.py 224-226 and 229-231: parse `count` lines from `position` on into
\* the metadata dict
RECURSIVE ReadMetadataLines(_, _, _, _)
ReadMetadataLines(file, position, count, metadata) ==
    IF count <= 0 THEN Returns(metadata)
    ELSE LET parsed == ParseMetadataLine(ReadLine(file, position))
         IN  IF ~parsed.ok THEN parsed
             ELSE ReadMetadataLines(file, position + 1, count - 1,
                      Put(metadata, parsed.value.key, parsed.value.value))

\* zilien.py 223
fixed_metadata_lines_amount == 4

\* the lines that the second loop of _read_metadata reads, for the declared
\* total of header lines
RestOfHeaderLines_all(num_header_lines) == Max(num_header_lines, 0)
RestOfHeaderLines(num_header_lines) ==
    Max(num_header_lines - fixed_metadata_lines_amount, 0)

\* zilien.py 233-240: the header rows after the `at` lines of the preamble,
\* `second` being the outcome of the second loop
ReadHeaderRows(file, at, second) ==
    IF ~second.ok THEN second
    ELSE Returns(
           [metadata |->
                IF "file_format_version" \in DOMAIN second.value
                THEN second.value
                ELSE Put(second.value, "file_format_version", PyInt(1)),
            series_headers |-> Split(StripNewlines(ReadLine(file, at + 1)), "\t"),
            column_headers |-> Split(StripNewlines(ReadLine(file, at + 2)), "\t"),
            lines_read |-> at + 2])

\* zilien.py 228-231: the second loop, over the `rest` lines that follow the
\* fixed ones
ReadRestOfMetadata(file, rest, metadata) ==
    ReadHeaderRows(file, fixed_metadata_lines_amount + rest,
                   ReadMetadataLines(file, fixed_metadata_lines_amount + 1, rest,
                                     metadata))

\* range(metadata["num_header_lines"] - ...): the number that the loop counts
\* with, an int or a bool
HeaderLinesDeclared(declared) ==
    IF declared.t = "int" THEN declared.i ELSE IF declared.b THEN 1 ELSE 0

\* zilien.py 227-240: _read_metadata after its first loop, whose outcome is
\* `first`
ReadMetadataAfter(file, first) ==
    IF ~first.ok THEN first
    ELSE IF "num_header_lines" \notin DOMAIN first.value THEN Raises("KeyError")
    ELSE IF first.value["num_header_lines"].t \notin {"int", "bool"}
    THEN Raises("TypeError")
    ELSE ReadRestOfMetadata(
             file,
             RestOfHeaderLines(HeaderLinesDeclared(first.value["num_header_lines"])),
             first.value)

\* zilien.py 214-240
ReadMetadata(file) ==
    ReadMetadataAfter(
        file, ReadMetadataLines(file, 1, fixed_metadata_lines_amount, EmptyDict))

\* zilien.py 181: np.genfromtxt gives a matrix for two rows or more, and a
\* vector (one dimension) for one row or none
GenFromTxt(file) ==
    [ndim |-> IF Len(file.data) >= 2 THEN 2 ELSE 1, rows |-> file.data]

\* the measurement classes, and issubclass(cls, base)
Classes ==
    {"Measurement", "ECMSMeasurement", "ECMeasurement", "MSMeasurement",
     "CyclicVoltammagram"}

IsSubclass(cls, base) ==
    \/ cls = base
    \/ base = "Measurement"
    \/ cls = "ECMSMeasurement" /\ base \in {"ECMeasurement", "MSMeasurement"}
    \/ cls = "CyclicVoltammagram" /\ base = "ECMeasurement"

\* zilien.py 33-45
ZILIEN_EC_ALIASES ==
    [k \in {"t", "raw_potential", "raw_current", "cycle"} |->
        CASE k = "t" -> <<"Potential time [s]">>
          [] k = "raw_potential" -> <<"Voltage [V]">>
          [] k = "raw_current" -> <<"Current [mA]">>
          [] k = "cycle" -> <<"Cycle [n]">>]

ZILIEN_ALIASES ==
    [cls \in {"ECMSMeasurement", "MSMeasurement", "ECMeasurement"} |->
        IF cls = "MSMeasurement" THEN [k \in {} |-> <<>>] ELSE ZILIEN_EC_ALIASES]

\* aliases[standard_name] += names, on a defaultdict(list)
ExtendAlias(aliases, standard_name, names) ==
    Put(aliases, standard_name,
        (IF standard_name \in DOMAIN aliases THEN aliases[standard_name] ELSE <<>>)
            \o names)

\* the keys of a dict of aliases in the order of their insertion is not kept
\* by the model; `for key, names in part.items(): aliases[key] += names`
\* gives the same dict in any order of the keys
RECURSIVE UpdateAliases(_, _)
UpdateAliases(aliases, part) ==
    IF DOMAIN part = {} THEN aliases
    ELSE LET key == CHOOSE k \in DOMAIN part : TRUE
             others == [k \in DOMAIN part \ {key} |-> part[k]]
         IN  UpdateAliases(ExtendAlias(aliases, key, part[key]), others)

\* data[begin:end, :][:, from:to] as a view: the rows and columns kept, and
\* where its rows come from
RowSlice(view, begin, end) ==
    LET stop == Min(end, Len(view.m))
    IN  [block |-> view.block, begin |-> view.begin + begin,
         end |-> view.begin + Max(stop, begin),
         m |-> SubSeq(view.m, begin + 1, stop)]

\* data_rows_split[:, column_number]; the cells of a column
ColumnData_trimmed(view, column_number) ==
    LET column == [r \in DOMAIN view.m |-> view.m[r][column_number + 1]]
        filled == {r \in DOMAIN column : column[r] # NaN}
    IN  IF filled = {} THEN column ELSE SubSeq(column, 1, SetMax(filled))
ColumnData(view, column_number) ==
    [r \in DOMAIN view.m |-> view.m[r][column_number + 1]]

\* np.isnan(column_data).all()
AllNaN(column_data) == \A r \in DOMAIN column_data : column_data[r] = NaN

\* TimeSeries(name, unit_name, data, tstamp) and
\* ValueSeries(name, unit_name, data, tseries); `tseries` holds the
\* TimeSeries that a ValueSeries refers to, `source` the block and the rows
\* [begin, end) of the file's matrix that the data is a view of
TimeSeries(name, unit_name, data, tstamp, view) ==
    [type |-> "TimeSeries", name |-> name, unit_name |-> unit_name,
     data |-> data, tstamp |-> tstamp, tseries |-> <<>>,
     source |-> [block |-> view.block, begin |-> view.begin, end |-> view.end]]

ValueSeries(name, unit_name, data, tseries, view) ==
    [type |-> "ValueSeries", name |-> name, unit_name |-> unit_name,
     data |-> data, tstamp |-> PyNone, tseries |-> <<tseries>>,
     source |-> [block |-> view.block, begin |-> view.begin, end |-> view.end]]

\* zilien.py 382-411: the loop of _create_series_objects from column_number
\* on; time_series is <<>> for None, or holds the TimeSeries
RECURSIVE CreateSeriesFrom(_, _, _, _, _, _, _)
CreateSeriesFrom(column_headers, names_and_units, view, timestamp, column_number, time_series, series_objects) ==
    IF column_number >= Len(column_headers) THEN Returns(series_objects)
    ELSE LET column_header == column_headers[column_number + 1]
             column_data == ColumnData(view, column_number)
             names == names_and_units[column_number + 1]
             skip(ts, objects) ==
                 CreateSeriesFrom(column_headers, names_and_units, view, timestamp,
                                  column_number + 1, ts, objects)
         IN  IF column_header \in {"experiment_number", "technique_number"}
             THEN skip(time_series, series_objects)
             ELSE IF AllNaN(column_data)
             THEN skip(time_series, series_objects)
             ELSE IF column_header \in TimeColumnHeaders
             THEN LET series_object ==
                          TimeSeries(names.name, names.unit, column_data,
                                     timestamp, view)
                  IN  skip(<<series_object>>, Append(series_objects, series_object))
             ELSE IF time_series = <<>> THEN Raises("ValueError")
             ELSE skip(time_series,
                       Append(series_objects,
                              ValueSeries(names.name, names.unit, column_data,
                                          time_series[1], view)))

\* zilien.py 359-413
CreateSeriesObjects(column_headers, names_and_units, view, timestamp) ==
    CreateSeriesFrom(column_headers, names_and_units, view, timestamp, 0,
                     <<>>, <<>>)

\* the names and units of the columns of a block (zilien.py 301-304, 337-340)
NamesAndUnits(series_header, column_headers) ==
    [i \in DOMAIN column_headers |->
        FormNamesAndUnit(series_header, column_headers[i])]

\* self._metadata[key] as a count of rows: the int, or the exception
CountOf(metadata, key) ==
    IF key \notin DOMAIN metadata THEN Raises("KeyError")
    ELSE IF metadata[key].t = "int" THEN Returns(metadata[key].i)
    ELSE IF metadata[key].t = "bool"
    THEN Returns(IF metadata[key].b THEN 1 ELSE 0)
    ELSE Raises("TypeError")

\* zilien.py 306-310: the standard names of a block, each with the names of
\* its series in column order
RECURSIVE MassAliases(_, _)
MassAliases(names_and_units, aliases) ==
    IF names_and_units = <<>> THEN aliases
    ELSE LET first == Head(names_and_units)
         IN  MassAliases(Tail(names_and_units),
                 IF first.standard_name # ""
                 THEN ExtendAlias(aliases, first.standard_name, <<first.name>>)
                 ELSE aliases)

\* zilien.py 286-317
ZilienDatasetPart(metadata, timestamp, series_header, column_headers, view) ==
    LET count == CountOf(metadata, series_header \o "_" \o series_header \o "_count")
        names_and_units == NamesAndUnits(series_header, column_headers)
    IN  IF ~count.ok THEN count
        ELSE LET column_series ==
                     CreateSeriesObjects(column_headers, names_and_units,
                                         RowSlice(view, 0, count.value), timestamp)
             IN  IF ~column_series.ok THEN column_series
                 ELSE Returns([column_series |-> column_series.value,
                               aliases |-> MassAliases(names_and_units, EmptyDict)])

\* column_headers.index(header), 0-based; -1 when the header is absent (the
\* call raises ValueError)
IndexOf(column_headers, header) ==
    LET at == {i \in DOMAIN column_headers : column_headers[i] = header}
    IN  IF at = {} THEN -1 ELSE SetMin(at) - 1

\* zilien.py 351-355: the series of the runs, in the order of the splits
RECURSIVE BiologicRuns(_, _, _, _, _, _)
BiologicRuns(column_headers, names_and_units, view, timestamp, splits, column_series) ==
    IF splits = <<>> THEN Returns(column_series)
    ELSE LET run == CreateSeriesObjects(column_headers, names_and_units,
                        RowSlice(view, Head(splits)[1], Head(splits)[2]), timestamp)
         IN  IF ~run.ok THEN run
             ELSE BiologicRuns(column_headers, names_and_units, view, timestamp,
                               Tail(splits), column_series \o run.value)

\* zilien.py 319-357: the count is looked up first (KeyError); in line 345
\* the index of the column "experiment_number" is evaluated (ValueError)
\* before the data is sliced by the count (TypeError), and line 346 follows
BiologicDatasetPart(metadata, timestamp, column_headers, view) ==
    LET count == CountOf(metadata,
                     BIOLOGIC_SERIES_NAME \o "_" \o BIOLOGIC_SERIES_NAME \o "_count")
        names_and_units == NamesAndUnits(BIOLOGIC_SERIES_NAME, column_headers)
        exp_index == IndexOf(column_headers, "experiment_number")
        tech_index == IndexOf(column_headers, "technique_number")
    IN  IF ~count.ok /\ count.exc = "KeyError" THEN count
        ELSE IF exp_index = -1 THEN Raises("ValueError")
        ELSE IF ~count.ok THEN count
        ELSE IF tech_index = -1 THEN Raises("ValueError")
        ELSE LET counted == RowSlice(view, 0, count.value)
                 split_vector == SplitVector(ColumnData(counted, exp_index),
                                             ColumnData(counted, tech_index))
             IN  BiologicRuns(column_headers, names_and_units, view, timestamp,
                              GetBiologicSplits(split_vector), <<>>)


\* the columns begin..end-1 of every row of a matrix
ColumnSlice(rows, begin, end) == [r \in DOMAIN rows |-> Slice(rows[r], begin, end)]

\* zilien.py 257-282: the loop of _form_series over the blocks from
\* `position` on (1-based position in the lists of the splits)
RECURSIVE FormSeriesFrom(_, _, _, _, _)
FormSeriesFrom(this, splits, position, series, aliases) ==
    IF position > Len(splits.nonempty_headers)
    THEN Returns([series |-> series, aliases |-> aliases])
    ELSE LET series_header == splits.nonempty_headers[position]
             begin == splits.series_split_indices[position][1]
             end == splits.series_split_indices[position][2]
             next(more, part) ==
                 FormSeriesFrom(this, splits, position + 1, series \o more,
                                UpdateAliases(aliases, part))
         IN  IF /\ ~IsSubclass(this.cls, "ECMeasurement")
                /\ series_header \in {"pot", BIOLOGIC_SERIES_NAME}
             THEN next(<<>>, EmptyDict)
             ELSE IF ~IsSubclass(this.cls, "MSMeasurement") /\ ToMass(series_header) # ""
             THEN next(<<>>, EmptyDict)
             ELSE IF this.data.ndim # 2 THEN Raises("IndexError")
             ELSE LET column_headers_split == Slice(this.column_headers, begin, end)
                      data_columns_split ==
                          [block |-> series_header, begin |-> 0,
                           end |-> Len(this.data.rows),
                           m |-> ColumnSlice(this.data.rows, begin, end)]
                  IN  IF series_header = BIOLOGIC_SERIES_NAME
                      THEN LET part == BiologicDatasetPart(this.metadata,
                                           this.timestamp, column_headers_split,
                                           data_columns_split)
                           IN  IF ~part.ok THEN part
                               ELSE next(part.value, EmptyDict)
                      ELSE LET part == ZilienDatasetPart(this.metadata,
                                           this.timestamp, series_header,
                                           column_headers_split, data_columns_split)
                           IN  IF ~part.ok THEN part
                               ELSE next(part.value.column_series, part.value.aliases)

\* zilien.py 242-284
FormSeries(this) ==
    FormSeriesFrom(this, GetSeriesSplits(this.series_headers), 1, <<>>, EmptyDict)

\* Path(path).stem: the file name without its last suffix
Stem(path) ==
    LET dots == {i \in Occurrences(path, ".") : i >= 2}
    IN  IF dots = {} THEN path ELSE SubSeq(path, 1, SetMax(dots) - 1)

\* " ".join(file_stem.split(" ")[:2])
TimestampString(file_stem) == Join(Slice(Split(file_stem, " "), 0, 2), " ")

\* reading_tools.timestamp_string_to_tstamp with ZILIEN_TIMESTAMP_FORM: the
\* epoch of a text like 2021-04-20 11_16_18, ValueError for any other text
TimestampStringToTstamp(timestamp_string) ==
    IF timestamp_string = "2021-04-20 11_16_18"
    THEN Returns(PyFloat(1618917378, 0))
    ELSE Raises("ValueError")

\* float(value)
FloatOf(value) ==
    CASE value.t = "float" -> Returns(value)
      [] value.t = "int" -> Returns(PyFloat(value.i, 0))
      [] value.t = "bool" -> Returns(PyFloat(IF value.b THEN 1 ELSE 0, 0))
      [] value.t = "str" -> ParseFloat(value.s)
      [] OTHER -> Raises("TypeError")

\* zilien.py 149-164: the class and the technique that a read call settles on;
\* technique "" stands for a call without the keyword
SettledClass(cls, technique) ==
    IF technique # ""
    THEN CASE technique = "EC-MS" -> "ECMSMeasurement"
           [] technique = "EC" -> "ECMeasurement"
           [] technique = "MS" -> "MSMeasurement"
           [] OTHER -> cls
    ELSE IF cls = "Measurement" THEN "ECMSMeasurement" ELSE cls

SettledTechnique(cls, technique) ==
    IF technique # "" THEN technique
    ELSE LET settled == SettledClass(cls, technique)
         IN  IF IsSubclass(settled, "ECMSMeasurement") THEN "EC-MS"
             ELSE IF IsSubclass(settled, "ECMeasurement") THEN "EC"
             ELSE IF IsSubclass(settled, "MSMeasurement") THEN "MS"
             ELSE ""

\* None in self._measurement and as the return value of read
NoMeasurement ==
    [cls |-> "None", name |-> "", series_list |-> <<>>, aliases |-> EmptyDict,
     tstamp |-> PyNone, metadata |-> EmptyDict, technique |-> ""]

NoData == [ndim |-> 0, rows |-> <<>>]

\* zilien.py 105-121: the attributes after __init__; "" stands for the None
\* of _path_to_file and of _cls
NewReader ==
    [path_to_file |-> "", cls |-> "", measurement |-> NoMeasurement,
     timestamp |-> PyNone, metadata |-> EmptyDict, series_headers |-> <<>>,
     column_headers |-> <<>>, data |-> NoData]

\* zilien.py 199-200: the general aliases of the class laid over the aliases
\* of the blocks
OverlayAliases(aliases, cls) == UpdateAliases(aliases, ZILIEN_ALIASES[cls])

\* the outcome of a read call: the reader after it and what the call gave
Outcome(this, kind, exc, value) ==
    [self |-> this, ret |-> [kind |-> kind, exc |-> exc, value |-> value]]

\* zilien.py 198-212: the measurement of the reader s3 from the outcome
\* `formed` of _form_series; technique is kwargs["technique"]
ReadFormed(s3, name, technique, formed) ==
    IF ~formed.ok THEN Outcome(s3, "raise", formed.exc, NoMeasurement)
    ELSE IF s3.cls \notin DOMAIN ZILIEN_ALIASES
    THEN Outcome(s3, "raise", "KeyError", NoMeasurement)
    ELSE LET measurement ==
                 [cls |-> s3.cls,
                  name |-> IF name # "" THEN name ELSE Stem(s3.path_to_file),
                  series_list |-> formed.value.series,
                  aliases |-> OverlayAliases(formed.value.aliases, s3.cls),
                  tstamp |-> s3.timestamp,
                  metadata |-> s3.metadata,
                  technique |-> technique]
         IN  Outcome([s3 EXCEPT !.measurement = measurement], "return", "",
                     measurement)

\* zilien.py 186-198: the time stamp of the reader s2 and its series
ReadStamped(s2, name, technique, timestamp) ==
    IF ~timestamp.ok THEN Outcome(s2, "raise", timestamp.exc, NoMeasurement)
    ELSE ReadFormed([s2 EXCEPT !.timestamp = timestamp.value], name, technique,
                    FormSeries([s2 EXCEPT !.timestamp = timestamp.value]))

\* zilien.py 170-195: the reader s1 takes the parts of the file from the
\* outcome read_metadata of _read_metadata and from np.genfromtxt
ReadParsed(s1, file, name, technique, read_metadata) ==
    IF ~read_metadata.ok
    THEN Outcome(s1, "raise", read_metadata.exc, NoMeasurement)
    ELSE ReadStamped(
             [s1 EXCEPT !.metadata = read_metadata.value.metadata,
                        !.series_headers = read_metadata.value.series_headers,
                        !.column_headers = read_metadata.value.column_headers,
                        !.data = GenFromTxt(file)],
             name, technique,
             IF "start_time_unix" \in DOMAIN read_metadata.value.metadata
             THEN FloatOf(read_metadata.value.metadata["start_time_unix"])
             ELSE TimestampStringToTstamp(TimestampString(Stem(s1.path_to_file))))

\* zilien.py 123-212: read(path_to_file, cls, name, technique=...) on the
\* reader `this`; exists and file tell what the path leads to
ReadCall_reread(this, exists, file, path_to_file, cls, name, technique) ==
    IF ~exists
    THEN Outcome([this EXCEPT !.cls = SettledClass(cls, technique),
                              !.path_to_file = path_to_file],
                 "raise", "FileNotFoundError", NoMeasurement)
    ELSE ReadParsed([this EXCEPT !.cls = SettledClass(cls, technique),
                                 !.path_to_file = path_to_file],
                    file, name, SettledTechnique(cls, technique),
                    ReadMetadata(file))
ReadCall(this, exists, file, path_to_file, cls, name, technique) ==
    IF this.path_to_file # ""
    THEN Outcome(this, "return", "", this.measurement)
    ELSE LET s1 == [this EXCEPT !.cls = SettledClass(cls, technique),
                                !.path_to_file = path_to_file]
         IN  IF ~exists
             THEN Outcome(s1, "raise", "FileNotFoundError", NoMeasurement)
             ELSE ReadParsed(s1, file, name, SettledTechnique(cls, technique),
                             ReadMetadata(file))

\* the inputs of the helpers
ExperimentNumbers == {5, 7}
TechniqueNumbers == {1, 2, NaN}
SeriesHeaderCells == {"", "pot", "C0M44", "EC-lab"}

KeyRows == [exp : ExperimentNumbers, tech : TechniqueNumbers]

SplitsInit ==
    /\ sp_pc = "call"
    /\ sp_out = <<>>
    /\ \/ /\ sp_call = "biologic"
          /\ sp_in \in SeqsOf(KeyRows, 0, MaxKeys)
       \/ /\ sp_call = "series"
          /\ sp_in \in SeqsOf(SeriesHeaderCells, 0, MaxL)

\* the composite keys of the rows of sp_in
KeysOf(rows) ==
    SplitVector([i \in DOMAIN rows |-> rows[i].exp],
                [i \in DOMAIN rows |-> rows[i].tech])

\* zilien.py 345-348: the composite key vector and its splits
CallGetBiologicSplits ==
    /\ sp_pc = "call"
    /\ sp_call = "biologic"
    /\ sp_out' = GetBiologicSplits(KeysOf(sp_in))
    /\ sp_pc' = "done"
    /\ UNCHANGED <<sp_call, sp_in>>

\* zilien.py 253-255: the call of _get_series_splits
CallGetSeriesSplits ==
    /\ sp_pc = "call"
    /\ sp_call = "series"
    /\ sp_out' = GetSeriesSplits(sp_in)
    /\ sp_pc' = "done"
    /\ UNCHANGED <<sp_call, sp_in>>



(***************************************************************************)
(* The files and the read calls of the model                               *)
(***************************************************************************)
\* a metadata line with an empty comment, and a header row
MetaLine(name, attach_to_series, type_as_str, value) ==
    name \o "\t\t" \o attach_to_series \o "\t" \o type_as_str \o "\t" \o value \o "\n"

HeaderRow(cells) == Join(cells, "\t") \o "\n"

\* the header rows of the files: three native blocks, two of them channels
\* of mass 44; a mass block and an EC-lab block; a block whose value column
\* comes before its time column; a "value" block after an empty first cell;
\* a "value" block without a time column; two channels of mass 44 with
\* different units, so that their series have different names
Layouts ==
    {[series |-> <<"pot", "", "C0M44", "", "C1M44", "">>,
      columns |-> <<"Time [s]", "Voltage [V]", "Time [s]", "M44-CO2 [A]",
                    "Time [s]", "M44-CO2 [A]">>],
     [series |-> <<"C0M44", "", "EC-lab", "", "", "">>,
      columns |-> <<"Time [s]", "M44-CO2 [A]", "experiment_number",
                    "technique_number", "time/s", "Ewe/V">>],
     [series |-> <<"pot", "">>,
      columns |-> <<"Voltage [V]", "Time [s]">>],
     [series |-> <<"", "Iongauge value", "">>,
      columns |-> <<"", "Time [s]", "Pressure [mbar]">>],
     [series |-> <<"Iongauge value", "">>,
      columns |-> <<"Pressure [mbar]", "Flow [ml/min]">>],
     [series |-> <<"C0M44", "", "C1M44", "">>,
      columns |-> <<"Time [s]", "M44-CO2 [A]", "Time [s]", "M44-CO2 [mA]">>]}

\* the cells that a file misses: the rows from..to-1 (0-based) of column col,
\* no cell for col = -1
Holes(layout, nrows) ==
    {[col |-> -1, from |-> 0, to |-> 0]} \cup
    {[col |-> col, from |-> from, to |-> nrows] :
        col \in 0..(Len(layout.columns) - 1), from \in 0..Min(1, nrows - 1)}

\* the composite keys of the rows of an EC-lab block: one run, two runs that
\* meet at any row, and the two keys in turn
RowKeys(layout, nrows) ==
    LET first == [exp |-> 5, tech |-> 1]
        second == [exp |-> 7, tech |-> 2]
    IN  IF BIOLOGIC_SERIES_NAME \in {layout.series[i] : i \in DOMAIN layout.series}
        THEN {[r \in 1..nrows |-> IF r <= k THEN first ELSE second] : k \in 0..nrows}
             \cup {[r \in 1..nrows |-> IF r % 2 = 1 THEN first ELSE second]}
        ELSE {[r \in 1..nrows |-> first]}

\* the matrix of a file
Matrix(layout, nrows, keys, hole) ==
    [r \in 1..nrows |->
        [col \in 1..Len(layout.columns) |->
            IF col - 1 = hole.col /\ hole.from <= r - 1 /\ r - 1 < hole.to THEN NaN
            ELSE IF layout.columns[col] = "experiment_number" THEN keys[r].exp
            ELSE IF layout.columns[col] = "technique_number" THEN keys[r].tech
            ELSE 10 * r + col]]

\* the preambles: "full" has the start time and a count for every block,
\* "no_start_time" leaves the start time to the file name, "no_count" has no
\* count of rows, "color" has a line of the type color
Preambles == {"full", "no_start_time", "no_count", "color"}

\* the count of rows that a file declares for a block: `count` for a native
\* block, and for the EC-lab block MaxRows when count is 1 and 1 when count is
\* MaxRows, so that the two kinds of block are not always cut alike
DeclaredCount(header, count) ==
    IF header = BIOLOGIC_SERIES_NAME THEN MaxRows + 1 - count ELSE count

CountLines(layout, count) ==
    LET headers == SelectSeq(layout.series, LAMBDA h : h # "")
    IN  [i \in DOMAIN headers |->
            MetaLine(headers[i] \o "_count", headers[i], "int",
                     IntToStr(DeclaredCount(headers[i], count)))]

PreambleLines(layout, count, preamble) ==
    LET more ==
            (IF preamble = "no_start_time" THEN <<>>
             ELSE <<MetaLine("start_time_unix", "", "double", "16189.5")>>)
            \o (IF preamble = "no_count" THEN <<>> ELSE CountLines(layout, count))
            \o (IF preamble = "color"
                THEN <<MetaLine("line_color", "", "color", "red")>> ELSE <<>>)
        total == fixed_metadata_lines_amount + Len(more)
    IN  <<MetaLine("file_format_version", "", "int", "2"),
          MetaLine("num_header_lines", "", "int", IntToStr(total)),
          MetaLine("num_data_header_lines", "", "int", "2"),
          MetaLine("data_start_line", "", "int", IntToStr(total + 3))>> \o more

FileOf(layout, nrows, count, keys, hole, preamble) ==
    [lines |-> PreambleLines(layout, count, preamble)
                   \o <<HeaderRow(layout.series), HeaderRow(layout.columns)>>,
     data |-> Matrix(layout, nrows, keys, hole)]

NoHole == [col |-> -1, from |-> 0, to |-> 0]

\* every matrix under a full preamble, and every preamble over the matrices
\* that miss no cell
Files ==
    UNION {{FileOf(layout, nrows, count, keys, hole, "full") :
               count \in {1, MaxRows}, keys \in RowKeys(layout, nrows),
               hole \in Holes(layout, nrows)} \cup
           {FileOf(layout, nrows, MaxRows, keys, NoHole, preamble) :
               keys \in RowKeys(layout, nrows), preamble \in Preambles} :
           layout \in Layouts, nrows \in 0..MaxRows}

\* the paths of the model: two lead to the file (one of them has the time
\* stamp in its name), one leads nowhere
Paths == {"2021-04-20 11_16_18 meas.tsv", "meas.tsv", "gone.tsv"}

Exists(path) == path # "gone.tsv"

\* the keyword arguments of the read calls, "" for an argument left out
Techniques == {"", "EC", "MS"}
Names == {"", "run 1"}

\* the read calls of the model: every path and name with the default class,
\* and every class and technique on the path with the time stamp
ReadArgs ==
    {[path_to_file |-> path_to_file, cls |-> "Measurement", name |-> name,
      technique |-> ""] : path_to_file \in Paths, name \in Names} \cup
    {[path_to_file |-> "2021-04-20 11_16_18 meas.tsv", cls |-> cls, name |-> "",
      technique |-> technique] : cls \in Classes, technique \in Techniques}

ReaderInit ==
    /\ disk \in Files
    /\ self = NewReader
    /\ rd_ret = [kind |-> "none", exc |-> "", value |-> NoMeasurement]
    /\ rd_reads = 0

\* zilien.py 123-212: a call of read on the reader
Read ==
    /\ rd_reads < MaxReads
    /\ \E args \in ReadArgs :
          LET outcome == ReadCall(self, Exists(args.path_to_file), disk,
                                  args.path_to_file, args.cls, args.name,
                                  args.technique)
          IN  /\ self' = outcome.self
              /\ rd_ret' = outcome.ret
    /\ rd_reads' = rd_reads + 1
    /\ UNCHANGED disk

(***************************************************************************)
(* The helpers of the reader called on their own                           *)
(***************************************************************************)
\* the five fields of the metadata lines of the model
MetadataNames == {"active", "count"}
Comments == {"", "a note"}
AttachToSeries == {"", "MS", "pot"}
TypeTags == {"string", "int", "double", "bool", "color", ""}
ValueTexts == {"true", "false", "True", "42", "007", "1.5", "2.50", "abc", ""}

MetadataFields ==
    [name : MetadataNames, comment : Comments, attach_to_series : AttachToSeries,
     type_as_str : TypeTags, value : ValueTexts]

\* the line of the file that holds the five fields
MetadataLineOf(fields) ==
    Join(<<fields.name, fields.comment, fields.attach_to_series,
           fields.type_as_str, fields.value>>, "\t") \o "\n"

\* a preamble that declares `declared` header lines and has `extra` metadata
\* lines (the counts of the series s1, s2, ...) after the four fixed ones,
\* before its two header rows
PreambleOf(declared, extra) ==
    [lines |->
         <<MetaLine("file_format_version", "", "int", "2"),
           MetaLine("num_header_lines", "", "int", IntToStr(declared)),
           MetaLine("num_data_header_lines", "", "int", "2"),
           MetaLine("data_start_line", "", "int", IntToStr(declared + 3))>>
         \o [i \in 1..extra |-> MetaLine("count", "s" \o IntToStr(i), "int", "1")]
         \o <<HeaderRow(<<"pot", "">>), HeaderRow(<<"Time [s]", "Voltage [V]">>)>>,
     data |-> <<>>]

Preambles_declared ==
    {[file |-> PreambleOf(declared, extra), declared |-> declared, extra |-> extra] :
        declared \in 0..MaxDeclared, extra \in 0..MaxExtraLines}

\* the block headers and the column headers that _form_names_and_unit is
\* called with
SeriesHeaderTexts ==
    {"pot", "EC-lab", "C0M44", "C1M44", "C12M2", "CM4", "Iongauge value",
     "MFC1 setpoint", "valve"}
ColumnHeaderTexts ==
    {"Time [s]", "time/s", "M44-CO2 [A]", "Flow [ml/min]", "Ewe/V",
     "control/V/mA", "cycle number", "a [b] [c]"}

HelpersInit ==
    /\ sp_pc = "call"
    /\ sp_out = <<>>
    /\ \/ /\ sp_call = "parse_metadata_line"
          /\ sp_in \in MetadataFields
       \/ /\ sp_call = "read_metadata"
          /\ sp_in \in Preambles_declared
       \/ /\ sp_call = "form_names_and_unit"
          /\ sp_in \in [series_header : SeriesHeaderTexts,
                        column_header : ColumnHeaderTexts]

\* zilien.py 225 and 230: the call of parse_metadata_line on a line
CallParseMetadataLine ==
    /\ sp_pc = "call"
    /\ sp_call = "parse_metadata_line"
    /\ sp_out' = ParseMetadataLine(MetadataLineOf(sp_in))
    /\ sp_pc' = "done"
    /\ UNCHANGED <<sp_call, sp_in>>

\* zilien.py 175: the call of _read_metadata on an opened file
CallReadMetadata ==
    /\ sp_pc = "call"
    /\ sp_call = "read_metadata"
    /\ sp_out' = ReadMetadata(sp_in.file)
    /\ sp_pc' = "done"
    /\ UNCHANGED <<sp_call, sp_in>>

\* zilien.py 306 and 339: the call of _form_names_and_unit on the headers
\* of a column
CallFormNamesAndUnit ==
    /\ sp_pc = "call"
    /\ sp_call = "form_names_and_unit"
    /\ sp_out' = FormNamesAndUnit(sp_in.series_header, sp_in.column_header)
    /\ sp_pc' = "done"
    /\ UNCHANGED <<sp_call, sp_in>>

(***************************************************************************)
(* Spectrum                                                                *)
(***************************************************************************)
\* the values of x and y data, the timestamps and the field ids of the model
DataValues == {0, 1}
Tstamps == {0, 100}
FieldIds == {1, 2}

\* no object (Python's None) where a Field, a Series or a return value may
\* stand
NoSeries == [name |-> "", unit_name |-> "", data |-> <<>>, tstamp |-> None]

NoField ==
    [id |-> None, name |-> "", unit_name |-> "", data |-> <<>>,
     axes_series |-> <<>>]

\* spectra.py 149-151: the one-sample TimeSeries of a spectrum
SpectrumTimeSeries(tstamp) ==
    [name |-> "spectrum time / [s]", unit_name |-> "s", data |-> <<0>>,
     tstamp |-> tstamp]

\* spectra.py 134-135: DataSeries(data=..., name=..., unit_name=...)
DataSeriesOf(name, unit_name, data) ==
    [name |-> name, unit_name |-> unit_name, data |-> data, tstamp |-> None]

\* spectra.py 152-157: the Field of from_series; np.array([yseries.data]) is
\* the matrix whose one row is the y data
FieldFromSeries(id, xseries, yseries, tstamp) ==
    [id |-> id, name |-> yseries.name, unit_name |-> yseries.unit_name,
     data |-> <<yseries.data>>,
     axes_series |-> <<xseries, SpectrumTimeSeries(tstamp)>>]

\* the Fields that the model builds: x and y of equal length
Fields ==
    {FieldFromSeries(id, DataSeriesOf("x", "", xy[1]), DataSeriesOf("y", "", xy[2]), t) :
        id \in FieldIds, t \in Tstamps,
        xy \in {p \in SeqsOf(DataValues, 1, MaxX) \X SeqsOf(DataValues, 1, MaxX) :
                   Len(p[1]) = Len(p[2])}}

\* spectra.py 110-147: the Field of from_data(x, y, tstamp)
FieldFromData(id, x, y, tstamp) ==
    FieldFromSeries(id, DataSeriesOf("x", "", x), DataSeriesOf("y", "", y), tstamp)

\* Field(data=..., axes_series=[xseries, tseries], ...) made by the caller of
\* from_field, with data that spans the axes: a row for every sample of x,
\* a column for the one sample of time
FieldSpanningAxes(id, x, y, tstamp) ==
    [id |-> id, name |-> "y", unit_name |-> "",
     data |-> [i \in 1..Len(y) |-> <<y[i]>>],
     axes_series |-> <<DataSeriesOf("x", "", x), SpectrumTimeSeries(tstamp)>>]

\* data.shape of the matrix of a Field
ShapeOf(data) == <<Len(data), IF Len(data) = 0 THEN 0 ELSE Len(data[1])>>

\* the ways that the model makes a Spectrum: from_data(x, y, tstamp),
\* from_field(Field(...)), and Spectrum(name, field_id=...) for a Field of
\* either make in the backend
SpectrumCalls ==
    {[via |-> via, id |-> id, x |-> xy[1], y |-> xy[2], tstamp |-> t,
      stored |-> stored] :
        via \in {"from_data", "from_field", "field_id"}, id \in FieldIds,
        t \in Tstamps, stored \in {"from_data", "from_field"},
        xy \in {p \in SeqsOf(DataValues, 1, MaxX) \X SeqsOf(DataValues, 1, MaxX) :
                   Len(p[1]) = Len(p[2])}}

\* the Field of a call, and the arguments that reach Spectrum.__init__
FieldOfCall(call) ==
    IF call.via = "from_data" \/ (call.via = "field_id" /\ call.stored = "from_data")
    THEN FieldFromData(call.id, call.x, call.y, call.tstamp)
    ELSE FieldSpanningAxes(call.id, call.x, call.y, call.tstamp)

ArgsOfCall(call) ==
    [field |-> IF call.via = "field_id" THEN NoField ELSE FieldOfCall(call),
     field_id |-> IF call.via = "field_id" THEN call.id ELSE None,
     via |-> call.via, x |-> call.x, y |-> call.y, tstamp |-> call.tstamp]

\* PlaceHolderObject(field_id, cls=Field), and a loaded Field, in self._field
PlaceHolderObject(field_id) ==
    [placeholder |-> TRUE, field_id |-> field_id, field |-> NoField]

Loaded(field) ==
    [placeholder |-> FALSE, field_id |-> field.id, field |-> field]

\* PlaceHolderObject.get_object: the Field that the backend holds
GetObject(holder, store) == store

\* spectra.py 62: self._field = field or PlaceHolderObject(field_id, cls=Field)
InitialField(args) ==
    IF args.field # NoField THEN Loaded(args.field)
    ELSE PlaceHolderObject(args.field_id)

\* spectra.py 180-181: self._field after an access of the `field` property
FieldSlot_nocache(slot, store) == slot
FieldSlot(slot, store) ==
    IF slot.placeholder THEN Loaded(GetObject(slot, store)) ELSE slot

\* spectra.py 177-182: the value of the `field` property
FieldOf(slot, store) ==
    IF slot.placeholder THEN GetObject(slot, store) ELSE slot.field

\* spectra.py 184-230: the properties read through self.field
Properties ==
    {"field", "field_id", "xseries", "x", "x_name", "yseries", "y", "y_name",
     "tseries", "tstamp"}

PropertyValue(prop, field) ==
    CASE prop = "field" -> field
      [] prop = "field_id" -> field.id
      [] prop = "xseries" -> field.axes_series[1]
      [] prop = "x" -> field.axes_series[1].data
      [] prop = "x_name" -> field.axes_series[1].name
      [] prop = "yseries" ->
            DataSeriesOf(field.name, field.unit_name, field.data[1])
      [] prop = "y" -> field.data[1]
      [] prop = "y_name" -> field.name
      [] prop = "tseries" -> field.axes_series[2]
      [] prop = "tstamp" ->
            field.axes_series[2].data[1] + field.axes_series[2].tstamp
      [] prop = "data_objects" -> field.axes_series

NoReturn == [prop |-> "", field |-> NoField, called |-> FALSE]

\* spectra.py 34-66: Spectrum(name, field=...) or Spectrum(name, field_id=...)
SpectrumInit ==
    /\ \E call \in SpectrumCalls :
           /\ call.via # "field_id" => call.stored = call.via
           /\ backend = FieldOfCall(call)
           /\ sx_args = ArgsOfCall(call)
    /\ self_field = InitialField(sx_args)
    /\ get_object_calls = 0
    /\ sx_ret = NoReturn
    /\ sx_accesses = 0

\* spectra.py 177-230: one access of a property that reads self.field
Access(prop) ==
    /\ sx_accesses < MaxAccesses
    /\ sx_accesses' = sx_accesses + 1
    /\ self_field' = FieldSlot(self_field, backend)
    /\ get_object_calls' =
           IF self_field.placeholder THEN get_object_calls + 1
           ELSE get_object_calls
    /\ sx_ret' = [prop |-> prop, field |-> FieldOf(self_field, backend),
                  called |-> self_field.placeholder]
    /\ UNCHANGED <<sx_args, backend>>

AccessField == Access("field")
AccessFieldId == Access("field_id")
AccessXseries == Access("xseries")
AccessX == Access("x")
AccessXName == Access("x_name")
AccessYseries == Access("yseries")
AccessY == Access("y")
AccessYName == Access("y_name")
AccessTseries == Access("tseries")
AccessTstamp == Access("tstamp")

\* Field.axes_series: the list that the Field holds, itself (not a copy)
AxesSeries(field) == field.axes_series

\* the Field as an entry of a list of objects
FieldReference(field) == [ref |-> "Field", id |-> field.id, name |-> field.name]

\* spectra.py 106-107: the list of the axes with the Field appended to it
AppendField(field) ==
    [field EXCEPT !.axes_series = Append(AxesSeries(field), FieldReference(field))]

\* spectra.py 97-108: one access of data_objects; the list it returns is the
\* list of the Field, now longer
AccessDataObjects ==
    /\ sx_accesses < MaxAccesses
    /\ sx_accesses' = sx_accesses + 1
    /\ self_field' = Loaded(AppendField(FieldOf(self_field, backend)))
    /\ get_object_calls' =
           IF self_field.placeholder THEN get_object_calls + 1
           ELSE get_object_calls
    /\ sx_ret' = [prop |-> "data_objects",
                  field |-> AppendField(FieldOf(self_field, backend)),
                  called |-> self_field.placeholder]
    /\ UNCHANGED <<sx_args, backend>>

\* what the last access returned
Returned == PropertyValue(sx_ret.prop, sx_ret.field)

(***************************************************************************)
(* Properties of redefine_cycle                                            *)
(***************************************************************************)
\* BEHIND and AHEAD of the start potential, on the arguments of the call:
\* anodic (redox) scans count v < start_potential as behind, cathodic scans
\* count v > start_potential as behind.  i is a 0-based sample index.
Behind(i) ==
    IF cv_args.redox
    THEN cv_args.v[i + 1] < cv_args.start_potential
    ELSE cv_args.v[i + 1] > cv_args.start_potential

Ahead(i) ==
    IF cv_args.redox
    THEN cv_args.v[i + 1] > cv_args.start_potential
    ELSE cv_args.v[i + 1] < cv_args.start_potential

\* the cycle index increases at sample j (0-based, j >= 1)
IncreaseAt(j) == cycle_vec[j + 1] > cycle_vec[j]

Increases == {j \in 1..(Len(cycle_vec) - 1) : IncreaseAt(j)}

\* the last increase before j, or the start of the signal
PrevIncrease(j) ==
    LET before == {i \in Increases : i < j}
    IN  IF before = {} THEN 0
        ELSE CHOOSE i \in before : \A k \in before : k <= i

\* C2: once the scan is set up, and so when it has ended, the cycle vector has
\* the length of the signal, holds only integers, never decreases along the
\* index and is 0 at index 0.
CycleVecWellFormed ==
    cv_pc # "call" =>
        /\ Len(cycle_vec) = Len(cv_args.v)
        /\ \A i \in DOMAIN cycle_vec : cycle_vec[i] \in Int
        /\ \A i \in 1..(Len(cycle_vec) - 1) : cycle_vec[i] <= cycle_vec[i + 1]
        /\ cycle_vec[1] = 0

\* a finished cathodic scan with a debounce that counted two cycles
CycleVecWitness ==
    /\ cv_pc = "done"
    /\ ~cv_args.redox
    /\ cv_args.N_points >= 1
    /\ cycle_vec[Len(cycle_vec)] = 2
    /\ cycle_vec[1] = 0

\* C3: every increase of the cycle index is at a sample AHEAD of the start
\* potential, and since the previous increase (or the start of the signal)
\* there were N_points consecutive samples all BEHIND it.
DebouncedIncrease ==
    cv_pc = "done" =>
        \A j \in Increases :
            /\ Ahead(j)
            /\ \E s \in PrevIncrease(j)..(j - cv_args.N_points) :
                   \A t \in s..(s + cv_args.N_points - 1) : Behind(t)

\* the signal is made of runs strictly BEHIND and strictly AHEAD, each longer
\* than N_points
AlternatingRuns ==
    LET N == Len(cv_args.v)
        SameSide(a, b) == (\A t \in a..b : Behind(t)) \/ (\A t \in a..b : Ahead(t))
    IN  \A i \in 0..(N - 1) :
            \E a \in 0..i : \E b \in i..(N - 1) :
                /\ b - a + 1 > cv_args.N_points
                /\ SameSide(a, b)

\* the crossings from BEHIND to AHEAD
Crossings == {i \in 1..(Len(cv_args.v) - 1) : Behind(i - 1) /\ Ahead(i)}

\* C4: on a signal of alternating runs longer than N_points, the last value
\* of the cycle vector is the number of crossings from BEHIND to AHEAD.
SawtoothCount ==
    (cv_pc = "done" /\ AlternatingRuns) =>
        cycle_vec[Len(cycle_vec)] = Cardinality(Crossings)

\* a finished scan of such a signal with two crossings and a debounce
SawtoothWitness ==
    /\ cv_pc = "done"
    /\ AlternatingRuns
    /\ cv_args.N_points >= 1
    /\ Cardinality(Crossings) = 2
    /\ cycle_vec[Len(cycle_vec)] = 2

\* the samples from index `from` on
SamplesFrom(from) == {i \in 0..(Len(cv_args.v) - 1) : i >= from}

\* C20: the scan loop ends, for every signal, start potential and N_points
\* >= 0 (0 too); the scan index grows in every pass that stays in the loop;
\* the loop is left when n has reached the length of the signal, or when no
\* sample from n on is BEHIND, or when no sample from the new n on is AHEAD.
ScanLoopTerminates ==
    /\ <>(cv_pc = "done")
    /\ [][cv_pc = "loop" /\ cv_pc' = "loop" => n' > n]_vars
    /\ [][cv_pc = "loop" /\ cv_pc' = "done" =>
              \/ n >= Len(cv_args.v)
              \/ \A i \in SamplesFrom(n) : ~Behind(i)
              \/ \A i \in SamplesFrom(n') : ~Ahead(i)]_vars
    /\ [](cv_iters <= Len(cv_args.v))

\* a scan without debounce (N_points = 0) has ended after three passes, two
\* of which counted a cycle
ScanLoopWitness ==
    /\ cv_pc = "done"
    /\ cv_args.N_points = 0
    /\ cv_iters = 3
    /\ c = 2


(***************************************************************************)
(* Properties of the splitting helpers                                     *)
(***************************************************************************)
\* the composite keys [5001, 5001, 5001, 7002, 7002, 5001]
ExampleKeyRows ==
    <<[exp |-> 5, tech |-> 1], [exp |-> 5, tech |-> 1], [exp |-> 5, tech |-> 1],
      [exp |-> 7, tech |-> 2], [exp |-> 7, tech |-> 2], [exp |-> 5, tech |-> 1]>>

\* C5: the pairs of _get_biologic_splits are in ascending row order and
\* partition [0, n) into maximal runs of one key: the first begins at 0, the
\* last ends at n, consecutive pairs abut, no run is empty, the keys of a run
\* are equal, the keys on the two sides of a boundary differ (a key that
\* comes back later gets a later run of its own), and the keys
\* [5001, 5001, 5001, 7002, 7002, 5001] give [(0,3), (3,5), (5,6)].
BiologicSplitsPartition ==
    (sp_pc = "done" /\ sp_call = "biologic") =>
        LET keys == KeysOf(sp_in)
            m == Len(sp_out)
        IN  /\ (Len(keys) = 0) <=> (m = 0)
            /\ m > 0 => (sp_out[1][1] = 0 /\ sp_out[m][2] = Len(keys))
            /\ \A i \in 1..m : sp_out[i][1] < sp_out[i][2]
            /\ \A i \in 1..(m - 1) : sp_out[i][2] = sp_out[i + 1][1]
            /\ \A i \in 1..m :
                   \A r \in (sp_out[i][1] + 2)..sp_out[i][2] :
                       KeyEq(keys[sp_out[i][1] + 1], keys[r])
            /\ \A i \in 1..(m - 1) :
                   ~KeyEq(keys[sp_out[i][2]], keys[sp_out[i][2] + 1])
            /\ sp_in = ExampleKeyRows => sp_out = <<<<0, 3>>, <<3, 5>>, <<5, 6>>>>

\* the example vector has been split, its recurring key 5001 in two runs
BiologicSplitsWitness ==
    /\ sp_pc = "done"
    /\ sp_call = "biologic"
    /\ KeysOf(sp_in) = <<5001, 5001, 5001, 7002, 7002, 5001>>
    /\ sp_out = <<<<0, 3>>, <<3, 5>>, <<5, 6>>>>

\* the columns of a returned pair, in a row of length L: begin..end-1, and up
\* to the end of the row for the end None
RangeColumns(pair, L) ==
    {col \in 0..(L - 1) : pair[1] <= col /\ (pair[2] = None \/ col < pair[2])}

\* the 0-based indices of the non-empty cells of the header row
NonEmptyIndices(series_headers) ==
    {i \in 0..(Len(series_headers) - 1) : series_headers[i + 1] # ""}

\* every column of the row is in exactly one returned range
CoversFrom(first, pairs, L) ==
    /\ \A col \in first..(L - 1) :
           Cardinality({i \in DOMAIN pairs : col \in RangeColumns(pairs[i], L)}) = 1
    /\ \A col \in 0..(first - 1) :
           \A i \in DOMAIN pairs : col \notin RangeColumns(pairs[i], L)

\* every non-empty header index is the begin of exactly one range
BeginsOnce(series_headers, pairs) ==
    \A idx \in NonEmptyIndices(series_headers) :
        Cardinality({i \in DOMAIN pairs : pairs[i][1] = idx}) = 1

\* C6 as stated: for any header row the ranges cover [0, L) exactly, and each
\* non-empty header index begins exactly one range.
SeriesSplitsCoverAll ==
    (sp_pc = "done" /\ sp_call = "series") =>
        /\ CoversFrom(0, sp_out.series_split_indices, Len(sp_in))
        /\ BeginsOnce(sp_in, sp_out.series_split_indices)

\* the index of the first non-empty header cell, L when there is none
FirstNonEmpty(series_headers) ==
    LET idxs == NonEmptyIndices(series_headers)
    IN  IF idxs = {} THEN Len(series_headers)
        ELSE CHOOSE i \in idxs : \A j \in idxs : i <= j

\* C6, amended: the ranges cover exactly the columns from the first non-empty
\* header cell to the end of the row, without gap or overlap (all of [0, L)
\* when cell 0 is non-empty, nothing when every cell is empty), and each
\* non-empty header index begins exactly one range.
SeriesSplitsCoverFromFirst ==
    (sp_pc = "done" /\ sp_call = "series") =>
        /\ CoversFrom(FirstNonEmpty(sp_in), sp_out.series_split_indices, Len(sp_in))
        /\ BeginsOnce(sp_in, sp_out.series_split_indices)

\* a row with an empty first cell and two blocks has been split
SeriesSplitsCoverWitness ==
    /\ sp_pc = "done"
    /\ sp_call = "series"
    /\ Len(sp_in) >= 4
    /\ sp_in[1] = ""
    /\ Len(sp_out.series_split_indices) = 2
    /\ RangeColumns(sp_out.series_split_indices[2], Len(sp_in)) # {}

\* the entries of _get_series_splits as (header, begin, end), where the end
\* of the last entry is `last`
EntriesAsStated(series_headers, out, last) ==
    LET pairs == out.series_split_indices
        heads == out.nonempty_headers
        m == Len(pairs)
    IN  /\ Len(heads) = m
        /\ m = Cardinality(NonEmptyIndices(series_headers))
        /\ \A i \in 1..m :
               /\ pairs[i][1] \in NonEmptyIndices(series_headers)
               /\ heads[i] = series_headers[pairs[i][1] + 1]
        /\ \A i \in 1..(m - 1) :
               /\ pairs[i][1] < pairs[i + 1][1]
               /\ pairs[i][2] = pairs[i + 1][1]
        /\ m > 0 => pairs[m][2] = last

\* C7 as stated: one entry per non-empty cell, in column order, the end being
\* the index of the next non-empty cell, or L for the last entry; an empty
\* result when every cell is empty.
SeriesSplitsEndL ==
    (sp_pc = "done" /\ sp_call = "series") =>
        EntriesAsStated(sp_in, sp_out, Len(sp_in))

\* C7, amended: one entry per non-empty cell, in column order, the end being
\* the index of the next non-empty cell, or None for the last entry (the
\* slice taken with it runs to the end of the row); an empty result when
\* every cell is empty.
SeriesSplitsEndNone ==
    (sp_pc = "done" /\ sp_call = "series") =>
        /\ EntriesAsStated(sp_in, sp_out, None)
        /\ \A i \in DOMAIN sp_out.series_split_indices :
               LET pair == sp_out.series_split_indices[i]
               IN  Slice(sp_in, pair[1], pair[2]) =
                       SubSeq(sp_in, pair[1] + 1,
                              IF i < Len(sp_out.series_split_indices)
                              THEN sp_out.series_split_indices[i + 1][1]
                              ELSE Len(sp_in))

\* a row of three blocks with continuation cells has been split
SeriesSplitsEntriesWitness ==
    /\ sp_pc = "done"
    /\ sp_call = "series"
    /\ sp_in = <<"pot", "", "C0M44", "", "EC-lab">>
    /\ sp_out.nonempty_headers = <<"pot", "C0M44", "EC-lab">>
    /\ sp_out.series_split_indices = <<<<0, 2>>, <<2, 4>>, <<4, None>>>>



(***************************************************************************)
(* Properties of ZilienTSVReader                                           *)
(***************************************************************************)
\* a measurement with all the parts of a payload
FullyFormed(measurement) ==
    /\ measurement # NoMeasurement
    /\ measurement.cls \in Classes
    /\ measurement.name # ""
    /\ measurement.tstamp.t = "float"
    /\ "file_format_version" \in DOMAIN measurement.metadata

\* C1: every read call on a reader either raises or returns a fully formed
\* measurement payload, also after an earlier read call on the reader raised.
ReadReturnsPayloadOrRaises ==
    rd_reads >= 1 =>
        \/ rd_ret.kind = "raise"
        \/ rd_ret.kind = "return" /\ FullyFormed(rd_ret.value)

\* the series of the payload that the last read call returned
ReturnedSeries ==
    IF rd_ret.kind = "return" THEN rd_ret.value.series_list ELSE <<>>

ReturnedValueSeries ==
    {i \in DOMAIN ReturnedSeries : ReturnedSeries[i].type = "ValueSeries"}

\* C8: every ValueSeries of a returned series list refers to a TimeSeries of
\* that list, made from the same block and the same rows, with as many
\* samples as the ValueSeries.
ValueSeriesShareTimeAxis ==
    \A i \in ReturnedValueSeries :
        LET vs == ReturnedSeries[i]
        IN  /\ Len(vs.tseries) = 1
            /\ vs.tseries[1].type = "TimeSeries"
            /\ Len(vs.data) = Len(vs.tseries[1].data)
            /\ vs.source = vs.tseries[1].source
            /\ Len(vs.data) = vs.source.end - vs.source.begin
            /\ \E j \in 1..(i - 1) : ReturnedSeries[j] = vs.tseries[1]

\* a returned series list with a native ValueSeries cut to its count of rows
\* and with ValueSeries of two EC-lab runs of different lengths
ValueSeriesWitness ==
    /\ rd_ret.kind = "return"
    /\ \E i \in ReturnedValueSeries :
           /\ ReturnedSeries[i].source.block = "C0M44"
           /\ ReturnedSeries[i].source.end < Len(disk.data)
    /\ \E i, j \in ReturnedValueSeries :
           /\ ReturnedSeries[i].source.block = BIOLOGIC_SERIES_NAME
           /\ ReturnedSeries[j].source.block = BIOLOGIC_SERIES_NAME
           /\ Len(ReturnedSeries[i].data) = 1
           /\ Len(ReturnedSeries[j].data) = 2

\* the index (0-based) of the header cell of the block of column col, -1 for
\* a column before every block
BlockStart(series_headers, col) ==
    LET at == {i \in 0..col : i < Len(series_headers) /\ series_headers[i + 1] # ""}
    IN  IF at = {} THEN -1 ELSE SetMax(at)

\* column col (0-based) holds values: it is in a block and is neither an
\* elapsed-time column nor one of the two run-identifier columns
IsValueColumn(this, col) ==
    /\ BlockStart(this.series_headers, col) >= 0
    /\ this.column_headers[col + 1] \notin TimeColumnHeaders
    /\ this.column_headers[col + 1] \notin {"experiment_number", "technique_number"}

\* a block of the file of the reader has a value column with no elapsed-time
\* column of the block before it
ValueColumnBeforeTime(this) ==
    \E col \in 0..(Len(this.column_headers) - 1) :
        /\ IsValueColumn(this, col)
        /\ \A before \in 0..(col - 1) :
               \/ BlockStart(this.series_headers, before)
                      # BlockStart(this.series_headers, col)
               \/ this.column_headers[before + 1] \notin TimeColumnHeaders

\* C11: a first read of a file with a block whose value column comes before
\* its elapsed-time column, or that has value columns and no elapsed-time
\* column, raises a FormatError: it returns no series list.
ValueBeforeTimeRaisesFormatError ==
    rd_reads = 1 /\ ValueColumnBeforeTime(self) =>
        rd_ret.kind = "raise" /\ rd_ret.exc = "FormatError"

\* C19: once a reader has a measurement from a read, every later read call
\* returns that measurement and leaves the reader as it is: its path,
\* metadata, headers, data and time stamp (no file is parsed again).
LaterReadsReturnFirst ==
    [][self.measurement # NoMeasurement =>
          /\ self' = self
          /\ rd_ret'.kind = "return"
          /\ rd_ret'.value = self.measurement]_vars

\* a third read call has returned the measurement of the first
LaterReadsWitness ==
    /\ rd_reads = 3
    /\ rd_ret.kind = "return"
    /\ rd_ret.value # NoMeasurement
    /\ rd_ret.value = self.measurement
    /\ rd_ret.value.cls = "MSMeasurement"
    /\ self.path_to_file = "2021-04-20 11_16_18 meas.tsv"

\* a standardized mass name: "M" and the digits of the mass
IsStandardMassName(key) ==
    Len(key) >= 2 /\ Char(key, 1) = "M" /\ AllDigits(SubSeq(key, 2, Len(key)))

\* the names of the Series of a returned series list
ReturnedSeriesNames == {ReturnedSeries[i].name : i \in DOMAIN ReturnedSeries}

\* C21: in a returned payload every name listed under a standardized mass
\* name "M{mass}" of the alias table is the name of a Series of the returned
\* series list, also when a value column of a mass block holds only missing
\* values.
MassAliasNamesAreSeries ==
    rd_ret.kind = "return" /\ rd_ret.value # NoMeasurement =>
        \A key \in DOMAIN rd_ret.value.aliases :
            IsStandardMassName(key) =>
                \A i \in DOMAIN rd_ret.value.aliases[key] :
                    rd_ret.value.aliases[key][i] \in ReturnedSeriesNames

(***************************************************************************)
(* Properties of parse_metadata_line, _read_metadata, _form_names_and_unit *)
(***************************************************************************)
\* the key that the claim gives to the fields of a line
QualifiedKey(fields) ==
    IF fields.attach_to_series # ""
    THEN fields.attach_to_series \o "_" \o fields.name
    ELSE fields.name

\* the numbers that the numerals of the model write
IntTexts == {"42", "007"}
IntOfText(text) == CASE text = "42" -> 42 [] text = "007" -> 7

FloatTexts == {"42", "007", "1.5", "2.50"}
FloatOfText(text) ==
    CASE text = "42" -> [t |-> "float", s |-> "", i |-> 42, d |-> 0, b |-> FALSE]
      [] text = "007" -> [t |-> "float", s |-> "", i |-> 7, d |-> 0, b |-> FALSE]
      [] text = "1.5" -> [t |-> "float", s |-> "", i |-> 15, d |-> 1, b |-> FALSE]
      [] text = "2.50" -> [t |-> "float", s |-> "", i |-> 25, d |-> 1, b |-> FALSE]

\* the Python type of the value of a type tag
TypeOfTag(tag) ==
    CASE tag = "string" -> "str" [] tag = "int" -> "int"
      [] tag = "double" -> "float" [] tag = "bool" -> "bool"

KnownTypeTags == {"string", "int", "double", "bool"}

\* C12: parse_metadata_line gives the key attach_to_series_name, or name
\* when attach_to_series is empty, and the value typed by the tag: the text
\* for string, the integer for int, the float for double, and for bool the
\* boolean that is true exactly for the text "true"; the comment does not
\* change the result.
ParseMetadataLineTyped ==
    sp_pc = "done" /\ sp_call = "parse_metadata_line"
        /\ sp_in.type_as_str \in KnownTypeTags =>
        LET key == QualifiedKey(sp_in)
            tag == sp_in.type_as_str
            text == sp_in.value
            Gives(value) == sp_out = Returns([key |-> key, value |-> value])
        IN  /\ tag = "string" => Gives(PyStr(text))
            /\ tag = "bool" =>
                   Gives([t |-> "bool", s |-> "", i |-> 0, d |-> 0,
                          b |-> (text = "true")])
            /\ tag = "int" /\ text \in IntTexts => Gives(PyInt(IntOfText(text)))
            /\ tag = "double" /\ text \in FloatTexts => Gives(FloatOfText(text))
            /\ sp_out.ok =>
                   /\ sp_out.value.key = key
                   /\ sp_out.value.value.t = TypeOfTag(tag)
            /\ sp_out = ParseMetadataLine(
                            MetadataLineOf([sp_in EXCEPT !.comment = ""]))

\* the line "active<tab>a note<tab>MS<tab>bool<tab>true" has given the key
\* MS_active and the value True
ParseMetadataLineWitness ==
    /\ sp_pc = "done"
    /\ sp_call = "parse_metadata_line"
    /\ sp_in = [name |-> "active", comment |-> "a note", attach_to_series |-> "MS",
                type_as_str |-> "bool", value |-> "true"]
    /\ sp_out.ok
    /\ sp_out.value.key = "MS_active"
    /\ sp_out.value.value.t = "bool"
    /\ sp_out.value.value.b

\* C13: a metadata line with a type tag other than string, int, double and
\* bool makes parse_metadata_line raise a FormatError, and it returns no
\* key and value.
UnknownTypeRaisesFormatError ==
    sp_pc = "done" /\ sp_call = "parse_metadata_line"
        /\ sp_in.type_as_str \notin KnownTypeTags =>
        ~sp_out.ok /\ sp_out.exc = "FormatError"

\* the keys of the first `count` lines of a preamble of the model
KeysOfLines(count) ==
    {<<"file_format_version", "num_header_lines", "num_data_header_lines",
       "data_start_line">>[i] : i \in 1..Min(count, 4)}
    \cup {"s" \o IntToStr(i) \o "_count" : i \in 1..(count - 4)}

\* the cells of the line at `position` of the preamble with `extra` lines
\* after the four fixed ones, for a position after these four
CellsOfLine(extra, position) ==
    IF position <= 4 + extra
    THEN <<"count", "", "s" \o IntToStr(position - 4), "int", "1">>
    ELSE IF position = 4 + extra + 1 THEN <<"pot", "">>
    ELSE IF position = 4 + extra + 2 THEN <<"Time [s]", "Voltage [V]">>
    ELSE <<"">>

\* _read_metadata has returned after it took `count` lines as metadata lines
\* and the two lines after them as the header rows
ConsumedLines(count) ==
    /\ DOMAIN sp_out.value.metadata = KeysOfLines(count)
    /\ sp_out.value.series_headers = CellsOfLine(sp_in.extra, count + 1)
    /\ sp_out.value.column_headers = CellsOfLine(sp_in.extra, count + 2)

\* C14 as stated: for every declared total T, _read_metadata takes exactly
\* T lines as metadata lines before it reads the two header rows.
ReadMetadataConsumesDeclared ==
    sp_pc = "done" /\ sp_call = "read_metadata" /\ sp_out.ok =>
        ConsumedLines(sp_in.declared)

\* C14, amended: _read_metadata takes the four fixed lines and then T - 4
\* more when T > 4, so max(T, 4) lines in all, before it reads the two
\* header rows, whatever lines the file has.
ReadMetadataConsumesFixedThenDeclared ==
    sp_pc = "done" /\ sp_call = "read_metadata" /\ sp_out.ok =>
        ConsumedLines(IF sp_in.declared > 4 THEN sp_in.declared ELSE 4)

\* a preamble that declares 5 lines and has 6: the sixth line is taken as
\* the row of series headers
ReadMetadataWitness ==
    /\ sp_pc = "done"
    /\ sp_call = "read_metadata"
    /\ sp_in.declared = 5
    /\ sp_in.extra = 2
    /\ sp_out.ok
    /\ DOMAIN sp_out.value.metadata =
           {"file_format_version", "num_header_lines", "num_data_header_lines",
            "data_start_line", "s1_count"}
    /\ sp_out.value.series_headers = <<"count", "", "s2", "int", "1">>
    /\ sp_out.value.column_headers = <<"pot", "">>

\* what the headers of the model are, as the claim reads them: the label of
\* a block, the mass of a mass-channel block ("" for another block), the
\* lowercased header of an elapsed-time column, the unit of a column header
BlockLabel(series_header) ==
    CASE series_header = "pot" -> "Potential"
      [] series_header = "EC-lab" -> "Biologic"
      [] OTHER -> series_header

MassOfBlock(series_header) ==
    CASE series_header \in {"C0M44", "C1M44"} -> "44"
      [] series_header = "C12M2" -> "2"
      [] OTHER -> ""

EndsInSetpointOrValue(series_header) ==
    series_header \in {"Iongauge value", "MFC1 setpoint"}

LoweredTimeHeader(column_header) ==
    CASE column_header = "Time [s]" -> "time [s]"
      [] column_header = "time/s" -> "time/s"

UnitOfColumn(column_header) ==
    CASE column_header = "M44-CO2 [A]" -> "A"
      [] column_header = "Flow [ml/min]" -> "ml/min"
      [] column_header = "Ewe/V" -> "V"
      [] column_header = "control/V/mA" -> "mA"
      [] column_header = "cycle number" -> ""
      [] column_header = "a [b] [c]" -> "b] [c"

\* C15: _form_names_and_unit gives, in this order of precedence: for an
\* elapsed-time column the unit "s", the name "<block label> <lowercased
\* column header>" and no alias, also in a mass-channel block; for a block
\* header that ends in "setpoint" or "value" the name "<block header>
\* [<unit>]" and no alias; for a mass-channel block the name "M<mass>
\* [<unit>]" and the alias "M<mass>"; else the column header as the name and
\* no alias.
FormNamesAndUnitPrecedence ==
    sp_pc = "done" /\ sp_call = "form_names_and_unit" =>
        LET block == sp_in.series_header
            column == sp_in.column_header
        IN  sp_out =
                IF column \in {"Time [s]", "time/s"}
                THEN [name |-> BlockLabel(block) \o " " \o LoweredTimeHeader(column),
                      unit |-> "s", standard_name |-> ""]
                ELSE IF EndsInSetpointOrValue(block)
                THEN [name |-> block \o " [" \o UnitOfColumn(column) \o "]",
                      unit |-> UnitOfColumn(column), standard_name |-> ""]
                ELSE IF MassOfBlock(block) # ""
                THEN [name |-> "M" \o MassOfBlock(block) \o " ["
                                   \o UnitOfColumn(column) \o "]",
                      unit |-> UnitOfColumn(column),
                      standard_name |-> "M" \o MassOfBlock(block)]
                ELSE [name |-> column, unit |-> UnitOfColumn(column),
                      standard_name |-> ""]

\* block "C1M44", column "M44-CO2 [A]" has given "M44 [A]", "A", "M44"
FormNamesAndUnitWitness ==
    /\ sp_pc = "done"
    /\ sp_call = "form_names_and_unit"
    /\ sp_in = [series_header |-> "C1M44", column_header |-> "M44-CO2 [A]"]
    /\ sp_out = [name |-> "M44 [A]", unit |-> "A", standard_name |-> "M44"]

(***************************************************************************)
(* Properties of Spectrum                                                  *)
(***************************************************************************)
\* the Field with the two axes it was made with: data_objects appends to
\* the list of the axes of the cached Field and changes nothing else of it
WithOriginalAxes(field) ==
    [field EXCEPT !.axes_series = SubSeq(@, 1, Min(2, Len(@)))]

\* C9: a Spectrum built with only a field_id calls get_object at most once,
\* on the first access; the reference, once resolved, stays resolved and
\* keeps the same Field: an access of field, field_id, xseries, x, x_name,
\* yseries, y, y_name, tseries or tstamp leaves it as it is, and while only
\* these have been made (the Field has its two axes) it is the Field of the
\* backend; every access reads that cached Field; a Spectrum built with a
\* Field never calls get_object.
LazyFieldResolvesOnce ==
    /\ [](get_object_calls <= 1)
    /\ [](sx_accesses >= 1 =>
            /\ ~self_field.placeholder
            /\ sx_ret.field = self_field.field
            /\ WithOriginalAxes(sx_ret.field) = backend
            /\ Len(sx_ret.field.axes_series) = 2 => sx_ret.field = backend
            /\ get_object_calls = IF sx_args.field = NoField THEN 1 ELSE 0)
    /\ [](sx_ret.called => sx_accesses = 1)
    /\ [](sx_args.field # NoField => get_object_calls = 0)
    /\ [][~self_field.placeholder =>
              /\ ~self_field'.placeholder
              /\ WithOriginalAxes(self_field'.field) = WithOriginalAxes(self_field.field)
              /\ sx_ret'.prop \in Properties => self_field' = self_field]_vars

\* C16 as stated: the Spectrum of from_data(x, y, tstamp) and the Spectrum
\* of from_field on a Field made with these axes and with data that spans
\* them have the same views, those of the input: x is the input x, y the
\* input y, tstamp the input tstamp.
ViewsEqualInputs ==
    sx_args.via \in {"from_data", "from_field"} =>
        /\ sx_ret.prop = "x" => Returned = sx_args.x
        /\ sx_ret.prop = "y" => Returned = sx_args.y
        /\ sx_ret.prop = "tstamp" => Returned = sx_args.tstamp

\* C17 as stated: the Field that from_series builds has, along every axis
\* i, as many entries as axes_series[i] has samples.
FromSeriesFieldShape ==
    sx_args.via = "from_data" =>
        \A i \in 1..2 :
            ShapeOf(sx_args.field.data)[i] = Len(sx_args.field.axes_series[i].data)

\* C18 as stated: after any accesses of a Spectrum its Field has its two
\* axes and no more, the x series and the one-sample TimeSeries, and every
\* access of data_objects returns three objects: the two axes and then the
\* Field.
DataObjectsLeavesAxes ==
    /\ ~self_field.placeholder =>
           /\ Len(self_field.field.axes_series) = 2
           /\ self_field.field.axes_series = backend.axes_series
    /\ sx_ret.prop = "data_objects" =>
           Returned = backend.axes_series \o <<FieldReference(backend)>>

\* a Spectrum built with a field_id has been accessed three times and its
\* last access, of tstamp, did not call get_object
LazyFieldWitness ==
    /\ sx_args.field = NoField
    /\ sx_accesses = 3
    /\ get_object_calls = 1
    /\ ~sx_ret.called
    /\ sx_ret.prop = "tstamp"
    /\ ~self_field.placeholder



\* the parts that a specification leaves alone
CVIdle ==
    /\ cv_args = [v |-> <<>>, start_potential |-> 0, redox |-> TRUE, N_points |-> 0]
    /\ cv_pc = "idle"
    /\ v = <<>>
    /\ start_potential = 0
    /\ n = 0
    /\ c = 0
    /\ cycle_vec = <<>>
    /\ cv_iters = 0

SplitsIdle ==
    /\ sp_call = "none"
    /\ sp_in = <<>>
    /\ sp_out = <<>>
    /\ sp_pc = "idle"

ReaderIdle ==
    /\ disk = [lines |-> <<>>, data |-> <<>>]
    /\ self = NewReader
    /\ rd_ret = [kind |-> "none", exc |-> "", value |-> NoMeasurement]
    /\ rd_reads = 0

SpectrumIdle ==
    /\ sx_args = [field |-> NoField, field_id |-> None, via |-> "", x |-> <<>>,
                  y |-> <<>>, tstamp |-> None]
    /\ backend = NoField
    /\ self_field = PlaceHolderObject(None)
    /\ get_object_calls = 0
    /\ sx_ret = NoReturn
    /\ sx_accesses = 0

CVNext ==
    \/ RedefineCycle /\ UNCHANGED <<sp_vars, sx_vars, rd_vars>>
    \/ ScanIteration /\ UNCHANGED <<sp_vars, sx_vars, rd_vars>>
    \/ ScanEnd /\ UNCHANGED <<sp_vars, sx_vars, rd_vars>>

InitCV == CVInit /\ SplitsIdle /\ SpectrumIdle /\ ReaderIdle

SpecCV == InitCV /\ [][CVNext]_vars

\* the scan is sequential code: a step that can be taken is taken
InitCVTerm == CVTermInit /\ SplitsIdle /\ SpectrumIdle /\ ReaderIdle

SpecCVTerm == InitCVTerm /\ [][CVNext]_vars /\ WF_vars(CVNext)

SplitsNext ==
    \/ CallGetBiologicSplits /\ UNCHANGED <<cv_vars, sx_vars, rd_vars>>
    \/ CallGetSeriesSplits /\ UNCHANGED <<cv_vars, sx_vars, rd_vars>>

InitSplits == SplitsInit /\ CVIdle /\ SpectrumIdle /\ ReaderIdle

SpecSplits == InitSplits /\ [][SplitsNext]_vars

SpectrumNext ==
    \/ AccessField /\ UNCHANGED <<cv_vars, sp_vars, rd_vars>>
    \/ AccessFieldId /\ UNCHANGED <<cv_vars, sp_vars, rd_vars>>
    \/ AccessXseries /\ UNCHANGED <<cv_vars, sp_vars, rd_vars>>
    \/ AccessX /\ UNCHANGED <<cv_vars, sp_vars, rd_vars>>
    \/ AccessY /\ UNCHANGED <<cv_vars, sp_vars, rd_vars>>
    \/ AccessTseries /\ UNCHANGED <<cv_vars, sp_vars, rd_vars>>
    \/ AccessTstamp /\ UNCHANGED <<cv_vars, sp_vars, rd_vars>>
    \/ AccessXName /\ UNCHANGED <<cv_vars, sp_vars, rd_vars>>
    \/ AccessYseries /\ UNCHANGED <<cv_vars, sp_vars, rd_vars>>
    \/ AccessYName /\ UNCHANGED <<cv_vars, sp_vars, rd_vars>>
    \/ AccessDataObjects /\ UNCHANGED <<cv_vars, sp_vars, rd_vars>>

InitSpectrum == SpectrumInit /\ CVIdle /\ SplitsIdle /\ ReaderIdle

SpecSpectrum == InitSpectrum /\ [][SpectrumNext]_vars

HelpersNext ==
    \/ CallParseMetadataLine /\ UNCHANGED <<cv_vars, sx_vars, rd_vars>>
    \/ CallReadMetadata /\ UNCHANGED <<cv_vars, sx_vars, rd_vars>>
    \/ CallFormNamesAndUnit /\ UNCHANGED <<cv_vars, sx_vars, rd_vars>>

InitHelpers == HelpersInit /\ CVIdle /\ SpectrumIdle /\ ReaderIdle

SpecHelpers == InitHelpers /\ [][HelpersNext]_vars

ReaderNext == Read /\ UNCHANGED <<cv_vars, sp_vars, sx_vars>>

InitReader == ReaderInit /\ CVIdle /\ SplitsIdle /\ SpectrumIdle

SpecReader == InitReader /\ [][ReaderNext]_vars

====
